---- MODULE Spec2Model ----
(***************************************************************************)
(* Page allocation simulator (src/simulator.py): a buddy allocator over a  *)
(* fixed page array (class BuddySystem), a two-list LRU reclaimer (class   *)
(* LRU) and the trace interpreter of __main__ that drives both.            *)
(*                                                                         *)
(* Python lists are modelled as sequences (index k of the code is index    *)
(* k+1 here), the page array as a function over 0..MAX_PAGENO-1, and the   *)
(* allocated_pages dict as a function whose DOMAIN is the set of keys.     *)
(* An uncaught Python exception ends the program: it sets failed.          *)
(***************************************************************************)
EXTENDS Integers, Sequences, FiniteSets, TLC

\* ---- bounds of the model ------------------------------------------------
MaxOrder == 2
MaxLenList == 2
MaxNum == 3
MaxLine == 3
MaxLongLine == 5

Seqnos == {1, 2}

VARIABLES
    pages,            \* BuddySystem.pages
    buddy_lists,      \* BuddySystem.buddy_lists
    allocated_pages,  \* BuddySystem.allocated_pages
    buddy_count,      \* BuddySystem.buddy_count
    inactive_list,    \* LRU.inactive_list
    active_list,      \* LRU.active_list
    size_active,      \* LRU.size_active
    size_inactive,    \* LRU.size_inactive
    line,             \* __main__'s line: the number of the next instruction
    failed,           \* an exception was raised: the program has stopped
    last,             \* the event processed last, with what it called and returned
    snap,             \* the arena before a run of events that is being followed
    history           \* the instructions processed so far (scenario runs only)

vars == <<pages, buddy_lists, allocated_pages, buddy_count, inactive_list,
          active_list, size_active, size_inactive, line, failed, last, snap,
          history>>

\* ---- arithmetic helpers ---------------------------------------------------
RECURSIVE Pow2(_)
Pow2(k) == IF k = 0 THEN 1 ELSE 2 * Pow2(k - 1)

\* int(math.log2(n)) for n >= 1
RECURSIVE FloorLog2(_)
FloorLog2(n) == IF n <= 1 THEN 0 ELSE 1 + FloorLog2(n \div 2)

\* math.ceil(math.log2(n)) for n >= 1
RECURSIVE CeilLog2From(_, _)
CeilLog2From(n, k) == IF Pow2(k) >= n THEN k ELSE CeilLog2From(n, k + 1)

CeilLog2(n) == CeilLog2From(n, 0)

NumPages(pg) == Cardinality(DOMAIN pg)

\* ---- BuddySystem ----------------------------------------------------------

\* A slip in partition_and_return: start_id is not advanced past a chunk.
RECURSIVE PartitionBits_NoAdvance(_, _, _, _)
PartitionBits_NoAdvance(lists, start_id, length, j) ==
    IF length = 0 THEN lists
    ELSE IF length % 2 = 1
         THEN PartitionBits_NoAdvance([lists EXCEPT ![j] = Append(@, start_id)],
                                      start_id, length \div 2, j + 1)
         ELSE PartitionBits_NoAdvance(lists, start_id, length \div 2, j + 1)

\* A slip in partition_and_return: the chunks are laid out from the most
\* significant bit down, the largest chunk at the lowest address.
RECURSIVE PartitionBits_HighFirst(_, _, _, _)
PartitionBits_HighFirst(lists, start_id, length, j) ==
    IF length = 0 THEN lists
    ELSE IF length % 2 = 1
         THEN PartitionBits_HighFirst(
                 [lists EXCEPT ![j] = Append(@, start_id + (length \div 2) * Pow2(j + 1))],
                 start_id, length \div 2, j + 1)
         ELSE PartitionBits_HighFirst(lists, start_id, length \div 2, j + 1)

\* partition_and_return: bit j of length (least significant first) appends the
\* current start_id to buddy_lists[j] and advances start_id by 2^j.
RECURSIVE PartitionBits(_, _, _, _)
PartitionBits(lists, start_id, length, j) ==
    IF length = 0 THEN lists
    ELSE IF length % 2 = 1
         THEN PartitionBits([lists EXCEPT ![j] = Append(@, start_id)],
                            start_id + Pow2(j), length \div 2, j + 1)
         ELSE PartitionBits(lists, start_id, length \div 2, j + 1)

partition_and_return(lists, start_id, length) ==
    PartitionBits(lists, start_id, length, 0)

\* The scan of update_buddy_lists from index i on; started is never reset, so
\* a zero-length run is handed to partition_and_return at every owned page
\* after the first free one (it appends nothing).
RECURSIVE ScanPages(_, _, _, _, _, _)
ScanPages(pg, i, p1, p2, started, lists) ==
    IF i >= NumPages(pg)
    THEN IF started THEN partition_and_return(lists, p1, p2 - p1) ELSE lists
    ELSE IF pg[i] < 0
         THEN ScanPages(pg, i + 1, p1, p2 + 1, TRUE, lists)
         ELSE IF started
              THEN ScanPages(pg, i + 1, p2 + 1, p2 + 1, started,
                             partition_and_return(lists, p1, p2 - p1))
              ELSE ScanPages(pg, i + 1, p1 + 1, p2 + 1, started, lists)

update_buddy_lists(pg, bc) ==
    ScanPages(pg, 0, 0, 0, FALSE, [i \in 0..(bc - 1) |-> <<>>])

RECURSIVE CountFree(_, _)
CountFree(pg, i) ==
    IF i >= NumPages(pg) THEN 0
    ELSE (IF pg[i] = -1 THEN 1 ELSE 0) + CountFree(pg, i + 1)

count_free_pages(pg) == CountFree(pg, 0)

access(ap, seqno, num) ==
    IF seqno \in DOMAIN ap /\ Len(ap[seqno]) > num
    THEN ap[seqno][num + 1]
    ELSE -1

\* The orders idx..buddy_count-1 whose free list is not empty.
FitOrders(st, idx) ==
    {i \in idx..(st.buddy_count - 1) : Len(st.buddy_lists[i]) > 0}

MinOf(S) == CHOOSE x \in S : \A y \in S : x <= y

\* The discontinuous scan of request_pages from index i on: every free slot is
\* taken until rest pages were collected or the array ends.
RECURSIVE TakeFree(_, _, _, _, _)
TakeFree(pg, seqno, i, rest, ids) ==
    IF i >= NumPages(pg) \/ rest = 0 THEN [pages |-> pg, ids |-> ids]
    ELSE IF pg[i] = -1
         THEN TakeFree([pg EXCEPT ![i] = seqno], seqno, i + 1, rest - 1, Append(ids, i))
         ELSE TakeFree(pg, seqno, i + 1, rest, ids)

\* A slip in request_pages: the last block of the list is popped, not the first.
request_pages_LastBlock(st, seqno, num) ==
    IF num <= 0 THEN [st EXCEPT !.failed = TRUE]
    ELSE
    LET idx  == CeilLog2(num)
        fit  == FitOrders(st, idx)
        free == {p \in DOMAIN st.pages : st.pages[p] = -1}
        got  == IF fit # {}
                THEN LET start == st.buddy_lists[MinOf(fit)][Len(st.buddy_lists[MinOf(fit)])]
                     IN  [pages |-> [p \in DOMAIN st.pages |->
                                       IF p >= start /\ p < start + num
                                       THEN seqno ELSE st.pages[p]],
                          ids   |-> [k \in 1..num |-> start + k - 1]]
                ELSE TakeFree(st.pages, seqno, 0, num, <<>>)
    IN  [st EXCEPT !.pages = got.pages,
                   !.buddy_lists = update_buddy_lists(got.pages, st.buddy_count),
                   !.page_ids = got.ids,
                   !.requested = num,
                   !.free_at_request = free,
                   !.request_from = [pages |-> st.pages, buddy_lists |-> st.buddy_lists],
                   !.request_to = got.pages]

\* request_pages for num >= 1; the result state carries the returned list in
\* page_ids, the argument in requested, the slots that were free on entry in
\* free_at_request, the page array and the free lists on entry in request_from
\* and the page array on return in request_to.  math.log2 raises for num = 0.
request_pages(st, seqno, num) ==
    IF num <= 0 THEN [st EXCEPT !.failed = TRUE]
    ELSE
    LET idx  == CeilLog2(num)
        fit  == FitOrders(st, idx)
        free == {p \in DOMAIN st.pages : st.pages[p] = -1}
        got  == IF fit # {}
                THEN LET start == Head(st.buddy_lists[MinOf(fit)])
                     IN  [pages |-> [p \in DOMAIN st.pages |->
                                       IF p >= start /\ p < start + num
                                       THEN seqno ELSE st.pages[p]],
                          ids   |-> [k \in 1..num |-> start + k - 1]]
                ELSE TakeFree(st.pages, seqno, 0, num, <<>>)
    IN  [st EXCEPT !.pages = got.pages,
                   !.buddy_lists = update_buddy_lists(got.pages, st.buddy_count),
                   !.page_ids = got.ids,
                   !.requested = num,
                   !.free_at_request = free,
                   !.request_from = [pages |-> st.pages, buddy_lists |-> st.buddy_lists],
                   !.request_to = got.pages]

\* allocate(page_ids, seqno): the record IS the list page_ids (same object).
allocate_all(st, seqno) ==
    [st EXCEPT !.allocated_pages =
        [s \in DOMAIN st.allocated_pages \cup {seqno} |->
            IF s = seqno THEN st.page_ids ELSE st.allocated_pages[s]]]

\* allocate(page_ids, seqno, idx): page_ids[-1] raises IndexError on an empty
\* list, allocated_pages[seqno] KeyError on an unknown seqno, and the store
\* IndexError when idx is past the end of the record.
allocate_at(st, seqno, idx) ==
    IF \/ Len(st.page_ids) = 0
       \/ seqno \notin DOMAIN st.allocated_pages
       \/ idx >= Len(st.allocated_pages[seqno])
    THEN [st EXCEPT !.failed = TRUE]
    ELSE [st EXCEPT !.allocated_pages[seqno][idx + 1] = st.page_ids[Len(st.page_ids)]]

\* A slip in deallocate: the record is cleared but the slot stays owned.
deallocate_KeepPage(st, seqno, num) ==
    LET page_id == access(st.allocated_pages, seqno, num)
        ap == IF page_id >= 0
              THEN [st.allocated_pages EXCEPT ![seqno][num + 1] = -1]
              ELSE st.allocated_pages
    IN  [st EXCEPT !.allocated_pages = ap,
                   !.buddy_lists = update_buddy_lists(st.pages, st.buddy_count),
                   !.ret = page_id]

\* A slip in deallocate: the slot is freed but the record keeps the page id.
deallocate_KeepRecord(st, seqno, num) ==
    LET page_id == access(st.allocated_pages, seqno, num)
        pg == IF page_id >= 0 THEN [st.pages EXCEPT ![page_id] = -1] ELSE st.pages
    IN  [st EXCEPT !.pages = pg,
                   !.buddy_lists = update_buddy_lists(pg, st.buddy_count),
                   !.ret = page_id]

\* deallocate; the returned page id is left in ret.
deallocate(st, seqno, num) ==
    LET page_id == access(st.allocated_pages, seqno, num)
        pg == IF page_id >= 0 THEN [st.pages EXCEPT ![page_id] = -1] ELSE st.pages
        ap == IF page_id >= 0
              THEN [st.allocated_pages EXCEPT ![seqno][num + 1] = -1]
              ELSE st.allocated_pages
    IN  [st EXCEPT !.pages = pg,
                   !.allocated_pages = ap,
                   !.buddy_lists = update_buddy_lists(pg, st.buddy_count),
                   !.ret = page_id]

\* ---- LRU -------------------------------------------------------------------

\* find_index: <<list_id, idx>> with idx the 0-based position; the inactive
\* list is searched first.
FirstAt(list, page_id) ==
    LET hits == {i \in 1..Len(list) : list[i][1] = page_id}
    IN  IF hits = {} THEN 0 ELSE MinOf(hits)

find_index(st, page_id) ==
    IF FirstAt(st.inactive_list, page_id) > 0
    THEN <<0, FirstAt(st.inactive_list, page_id) - 1>>
    ELSE IF FirstAt(st.active_list, page_id) > 0
         THEN <<1, FirstAt(st.active_list, page_id) - 1>>
         ELSE <<-1, -1>>

\* list.pop(i) for a 1-based position i
RemoveAt(list, i) == SubSeq(list, 1, i - 1) \o SubSeq(list, i + 1, Len(list))

\* list.remove(node): the first element equal to node goes
RemoveFirst(list, node) ==
    LET hits == {i \in 1..Len(list) : list[i] = node}
    IN  IF hits = {} THEN list ELSE RemoveAt(list, MinOf(hits))

\* One loop of delete: "for node in list: if node[0] == page_id:
\* list.remove(node)".  The list iterator keeps a position, so the element
\* that slides into a removed slot is skipped.
RECURSIVE DeleteIter(_, _, _)
DeleteIter(list, page_id, i) ==
    IF i > Len(list) THEN list
    ELSE IF list[i][1] = page_id
         THEN DeleteIter(RemoveFirst(list, list[i]), page_id, i + 1)
         ELSE DeleteIter(list, page_id, i + 1)

delete(st, page_id) ==
    [st EXCEPT !.inactive_list = DeleteIter(st.inactive_list, page_id, 1),
               !.active_list = DeleteIter(st.active_list, page_id, 1)]

\* A slip in reclaim: the node is deleted but the page is not deallocated.
reclaim_NoDeallocate(st, node, from) ==
    LET d == delete(st, node[1])
    IN  [d EXCEPT !.evicted = Append(@, [node |-> node, from |-> from, page |-> -1])]

\* reclaim(page_id, seqno, num); from says where the caller took the node.
\* Every call is logged in evicted with the page id deallocate returned.
reclaim(st, node, from) ==
    LET d == deallocate(delete(st, node[1]), node[2], node[3])
    IN  [d EXCEPT !.evicted = Append(@, [node |-> node, from |-> from, page |-> d.ret])]

\* A slip in insert_inactive: the newest node (the tail) is evicted.
RECURSIVE EvictOverflow_Tail(_, _)
EvictOverflow_Tail(st, k) ==
    IF k = 0 \/ st.failed THEN st
    ELSE IF st.inactive_list = <<>> THEN [st EXCEPT !.failed = TRUE]
    ELSE EvictOverflow_Tail(
            reclaim([st EXCEPT !.inactive_list = SubSeq(@, 1, Len(@) - 1)],
                    st.inactive_list[Len(st.inactive_list)], "overflow"),
            k - 1)

\* The eviction loop of insert_inactive: k pops of the inactive head.
RECURSIVE EvictOverflow(_, _)
EvictOverflow(st, k) ==
    IF k = 0 \/ st.failed THEN st
    ELSE IF st.inactive_list = <<>> THEN [st EXCEPT !.failed = TRUE]
    ELSE EvictOverflow(
            reclaim([st EXCEPT !.inactive_list = Tail(@)], Head(st.inactive_list), "overflow"),
            k - 1)

\* A slip in insert_inactive: the capacity is never enforced.
insert_inactive_NoEvict(st, page_id, seqno, num) ==
    [st EXCEPT !.inactive_list = Append(@, <<page_id, seqno, num>>)]

insert_inactive(st, page_id, seqno, num) ==
    LET a == [st EXCEPT !.inactive_list = Append(@, <<page_id, seqno, num>>)]
    IN  IF Len(a.inactive_list) > st.size_inactive
        THEN EvictOverflow(a, Len(a.inactive_list) - st.size_inactive)
        ELSE a

\* The demotion loop of promote: k pops of the active head, each re-inserted
\* at the inactive tail (and counted in demoted).
RECURSIVE Demote(_, _)
Demote(st, k) ==
    IF k = 0 \/ st.failed THEN st
    ELSE IF st.active_list = <<>> THEN [st EXCEPT !.failed = TRUE]
    ELSE LET n == Head(st.active_list)
         IN  Demote(insert_inactive([st EXCEPT !.active_list = Tail(@),
                                               !.demoted = @ + 1],
                                    n[1], n[2], n[3]),
                    k - 1)

\* A slip in promote: the node is read from the inactive list, not popped.
promote_KeepInactive(st, page_id) ==
    LET f == find_index(st, page_id)
    IN  IF f[1] = 0
        THEN LET node == st.inactive_list[f[2] + 1]
                 a == [st EXCEPT !.active_list = Append(@, node)]
             IN  IF Len(a.active_list) > st.size_active
                 THEN Demote(a, Len(a.active_list) - st.size_active)
                 ELSE a
        ELSE st

\* A slip in promote: the node leaves the inactive list only after the
\* demotion, so the demoted node meets an inactive list that is still full.
promote_DemoteFirst(st, page_id) ==
    LET f == find_index(st, page_id)
    IN  IF f[1] = 0
        THEN LET node == st.inactive_list[f[2] + 1]
                 a == [st EXCEPT !.active_list = Append(@, node)]
                 d == IF Len(a.active_list) > st.size_active
                      THEN Demote(a, Len(a.active_list) - st.size_active)
                      ELSE a
             IN  [d EXCEPT !.inactive_list = RemoveFirst(@, node)]
        ELSE st

promote(st, page_id) ==
    LET f == find_index(st, page_id)
    IN  IF f[1] = 0
        THEN LET node == st.inactive_list[f[2] + 1]
                 a == [st EXCEPT !.inactive_list = RemoveAt(@, f[2] + 1),
                                 !.active_list = Append(@, node)]
             IN  IF Len(a.active_list) > st.size_active
                 THEN Demote(a, Len(a.active_list) - st.size_active)
                 ELSE a
        ELSE st

\* The loop of reclaim_n_pages with n iterations left.  cur is the value of the
\* locals (page_id, seqno, num): <<>> while unbound.  With both lists empty the
\* locals keep their last value, and reading them unbound raises
\* UnboundLocalError.
RECURSIVE ReclaimLoop(_, _, _)
ReclaimLoop(st, n, cur) ==
    IF n <= 0 \/ st.failed THEN st
    ELSE IF Len(st.inactive_list) > 0
         THEN ReclaimLoop(reclaim([st EXCEPT !.inactive_list = Tail(@)],
                                  Head(st.inactive_list), "inactive"),
                          n - 1, Head(st.inactive_list))
    ELSE IF Len(st.active_list) > 0
         THEN ReclaimLoop(reclaim([st EXCEPT !.active_list = Tail(@)],
                                  Head(st.active_list), "active"),
                          n - 1, Head(st.active_list))
    ELSE IF cur = <<>> THEN [st EXCEPT !.failed = TRUE]
    ELSE ReclaimLoop(reclaim(st, cur, "stale"), n - 1, cur)

\* reclaim_n_pages; the call is logged: its argument in reclaim_n, the lists
\* and the free count it found in reclaim_from, and what it left (when it
\* returned) in reclaim_to.
reclaim_n_pages(st, n) ==
    LET r == ReclaimLoop([st EXCEPT !.reclaim_n = n], n, <<>>)
    IN  [r EXCEPT !.reclaim_from = [inactive |-> st.inactive_list,
                                    active |-> st.active_list,
                                    free |-> count_free_pages(st.pages)],
                  !.reclaim_to = [nodes |-> Len(r.inactive_list) + Len(r.active_list),
                                  free |-> count_free_pages(r.pages),
                                  returned |-> ~r.failed]]

\* ---- __main__ ---------------------------------------------------------------

\* The program state as one value, with the scratch fields the handlers fill:
\* page_ids (the list request_pages returned), requested (its argument num, 0
\* when it was not called), free_at_request (the slots that were free when it
\* was entered), request_from and request_to (the arena it found and the page
\* array it left), ret (the last return value of deallocate), reclaim_n (the
\* argument of reclaim_n_pages, 0 when it was not called), reclaim_from and
\* reclaim_to (what that call found and left), evicted (the log of the
\* reclaim calls) and demoted (the number of nodes promote demoted).
Cur ==
    [pages |-> pages, buddy_lists |-> buddy_lists, allocated_pages |-> allocated_pages,
     buddy_count |-> buddy_count, inactive_list |-> inactive_list,
     active_list |-> active_list, size_active |-> size_active,
     size_inactive |-> size_inactive, failed |-> FALSE,
     page_ids |-> <<>>, requested |-> 0, free_at_request |-> {},
     request_from |-> <<>>, request_to |-> <<>>, ret |-> -1,
     reclaim_n |-> 0, reclaim_from |-> <<>>, reclaim_to |-> <<>>,
     evicted |-> <<>>, demoted |-> 0]

\* "for idx, p_id in enumerate(page_ids)": page_ids is the very list stored in
\* allocated_pages[seqno], so p_id is read from the record as it is when the
\* iteration reaches idx.
RECURSIVE InsertAll(_, _, _)
InsertAll(st, seqno, idx) ==
    IF st.failed \/ idx >= Len(st.allocated_pages[seqno]) THEN st
    ELSE InsertAll(insert_inactive(st, st.allocated_pages[seqno][idx + 1], seqno, idx),
                   seqno, idx + 1)

\* The handler of action 'A'.
AllocateEvent(st, seqno, num) ==
    LET n_pages == num - count_free_pages(st.pages)
        r == IF n_pages <= 0 THEN st ELSE reclaim_n_pages(st, n_pages)
        q == IF r.failed THEN r ELSE request_pages(r, seqno, num)
    IN  IF q.failed THEN q ELSE InsertAll(allocate_all(q, seqno), seqno, 0)

\* The handler of action 'X'.
AccessEvent(st, seqno, num) ==
    LET page_id == access(st.allocated_pages, seqno, num)
    IN  IF page_id >= 0 THEN promote(st, page_id)
        ELSE LET n_pages == 1 - count_free_pages(st.pages)
                 r == IF n_pages <= 0 THEN st ELSE reclaim_n_pages(st, n_pages)
                 q == IF r.failed THEN r ELSE request_pages(r, seqno, 1)
                 a == IF q.failed THEN q ELSE allocate_at(q, seqno, num)
             IN  IF a.failed THEN a
                 ELSE insert_inactive(a, a.page_ids[Len(a.page_ids)], seqno, num)

\* The handler of action 'F'.
FreeEvent(st, seqno, num) ==
    LET d == deallocate(st, seqno, num)
    IN  delete(d, d.ret)

\* The state after construction: BuddySystem(MAX_PAGENO) and LRU(buddy_system,
\* size_active, size_inactive).
Construct(max_pageno, sa, si) ==
    /\ buddy_count = FloorLog2(max_pageno) + 1
    /\ buddy_lists = [i \in 0..FloorLog2(max_pageno) |->
                        IF i = FloorLog2(max_pageno) THEN <<0>> ELSE <<>>]
    /\ pages = [p \in 0..(max_pageno - 1) |-> -1]
    /\ allocated_pages = <<>>
    /\ active_list = <<>>
    /\ inactive_list = <<>>
    /\ size_active = sa
    /\ size_inactive = si
    /\ line = 1
    /\ failed = FALSE
    /\ last = [action |-> "none"]
    /\ snap = [kind |-> "none"]
    /\ history = <<>>

\* __main__ builds BuddySystem(MAX_PAGENO) and LRU(buddy_system, LEN_LIST,
\* LEN_LIST); here the two capacities of LRU.__init__ are chosen apart.
\* MAX_PAGENO is a power of two (512 in the source), which the one seed block
\* of BuddySystem.__init__ presumes.
Init ==
    \E order \in 1..MaxOrder, sa \in 1..MaxLenList, si \in 1..MaxLenList :
        Construct(Pow2(order), sa, si)

\* What is followed after the event (action, seqno, num) with outcome r:
\*   kind "A": an 'A' of seqno, then 'F's of its positions 0..num-1 (freed says
\*             which were issued), with the arena as it was before the 'A';
\*             foreign says that the 'A' evicted a page it had not itself
\*             just been given;
\*   kind "X": one or two (count) hits of 'X' on the same position in a row,
\*             with the arena as it was before the first.
SnapAfter(r, action, seqno, num, lookup) ==
    IF r.failed THEN [kind |-> "none"]
    ELSE IF action = "A"
    THEN [kind |-> "A", seqno |-> seqno, num |-> num, freed |-> {},
          foreign |-> \E i \in 1..Len(r.evicted) :
                         /\ r.evicted[i].page >= 0
                         /\ \/ r.evicted[i].from # "overflow"
                            \/ \A k \in 1..Len(r.page_ids) :
                                  r.page_ids[k] # r.evicted[i].page,
          pages |-> pages, buddy_lists |-> buddy_lists]
    ELSE IF action = "F" /\ snap.kind = "A" /\ snap.seqno = seqno
            /\ num \in (0..(snap.num - 1)) \ snap.freed
    THEN [snap EXCEPT !.freed = @ \cup {num}]
    ELSE IF action = "X" /\ lookup >= 0
    THEN IF snap.kind = "X" /\ snap.seqno = seqno /\ snap.num = num /\ snap.count = 1
         THEN [snap EXCEPT !.count = 2]
         ELSE [kind |-> "X", seqno |-> seqno, num |-> num, count |-> 1,
               pages |-> pages, buddy_lists |-> buddy_lists,
               allocated_pages |-> allocated_pages]
    ELSE [kind |-> "none"]

\* One iteration of the event loop: the handler's result becomes the state.
\* lookup is what the handler's own access/deallocate call returned.
Commit(r, action, seqno, num, lookup) ==
    /\ pages' = r.pages
    /\ buddy_lists' = r.buddy_lists
    /\ allocated_pages' = r.allocated_pages
    /\ inactive_list' = r.inactive_list
    /\ active_list' = r.active_list
    /\ failed' = r.failed
    /\ line' = IF r.failed THEN line ELSE line + 1
    /\ last' = [action |-> action, seqno |-> seqno, num |-> num, lookup |-> lookup,
                page_ids |-> r.page_ids, requested |-> r.requested,
                free_at_request |-> r.free_at_request,
                request_from |-> r.request_from, request_to |-> r.request_to,
                reclaim_n |-> r.reclaim_n, reclaim_from |-> r.reclaim_from,
                reclaim_to |-> r.reclaim_to, evicted |-> r.evicted,
                demoted |-> r.demoted]
    /\ snap' = SnapAfter(r, action, seqno, num, lookup)
    /\ UNCHANGED <<buddy_count, size_active, size_inactive>>

AllocateStep(seqno, num) ==
    /\ ~failed
    /\ line <= MaxLine
    /\ Commit(AllocateEvent(Cur, seqno, num), "A", seqno, num, -1)

AccessStep(seqno, num) ==
    /\ ~failed
    /\ line <= MaxLine
    /\ Commit(AccessEvent(Cur, seqno, num), "X", seqno, num,
              access(allocated_pages, seqno, num))

FreeStep(seqno, num) ==
    /\ ~failed
    /\ line <= MaxLine
    /\ Commit(FreeEvent(Cur, seqno, num), "F", seqno, num,
              access(allocated_pages, seqno, num))

Allocate(seqno, num) == AllocateStep(seqno, num) /\ UNCHANGED history

Access(seqno, num) == AccessStep(seqno, num) /\ UNCHANGED history

Free(seqno, num) == FreeStep(seqno, num) /\ UNCHANGED history

\* The instructions of the trace: 'A' asks for 1..MaxNum pages, 'X' and 'F'
\* name a position 0..MaxNum-1 (past the end of any shorter record).  The code
\* treats a seqno as a label only, so the first instruction names seqno 1.
Next ==
    \E seqno \in Seqnos, num \in 1..MaxNum :
        /\ line = 1 => seqno = 1
        /\ \/ Allocate(seqno, num)
           \/ Access(seqno, num - 1)
           \/ Free(seqno, num - 1)

Spec == Init /\ [][Next]_vars

\* ---- the scenario configuration ---------------------------------------------
\* MAX_PAGENO = 8 and size_active = size_inactive = 2, three instructions at
\* most, each recorded in history.
ScenarioInit == Construct(8, 2, 2)

Record(action, seqno, num) ==
    /\ Len(history) < 3
    /\ history' = Append(history, <<action, seqno, num>>)

ScenarioAllocate(seqno, num) == Record("A", seqno, num) /\ AllocateStep(seqno, num)

ScenarioAccess(seqno, num) == Record("X", seqno, num) /\ AccessStep(seqno, num)

ScenarioFree(seqno, num) == Record("F", seqno, num) /\ FreeStep(seqno, num)

ScenarioNext ==
    \E seqno \in 1..3, num \in 1..4 :
        \/ ScenarioAllocate(seqno, num)
        \/ ScenarioAccess(seqno, num - 1)
        \/ ScenarioFree(seqno, num - 1)

ScenarioSpec == ScenarioInit /\ [][ScenarioNext]_vars

\* ---- well-formed traces ------------------------------------------------------
\* The traces in which a seqno is the subject of one 'A' at most, every 'A'
\* asks for 1..MAX_PAGENO pages, and every 'X' and 'F' names a position inside
\* the record of its seqno.  allocate (line 56) is the only place a key enters
\* allocated_pages, so a seqno has been allocated iff it is a key.
WellFormedAllocate(seqno, num) ==
    /\ seqno \notin DOMAIN allocated_pages
    /\ num <= NumPages(pages)
    /\ Allocate(seqno, num)

WellFormedAccess(seqno, num) ==
    /\ seqno \in DOMAIN allocated_pages
    /\ num < Len(allocated_pages[seqno])
    /\ Access(seqno, num)

WellFormedFree(seqno, num) ==
    /\ seqno \in DOMAIN allocated_pages
    /\ num < Len(allocated_pages[seqno])
    /\ Free(seqno, num)

WellFormedNext ==
    \E seqno \in Seqnos, num \in 1..MaxNum :
        /\ line = 1 => seqno = 1
        /\ \/ WellFormedAllocate(seqno, num)
           \/ WellFormedAccess(seqno, num - 1)
           \/ WellFormedFree(seqno, num - 1)

WellFormedSpec == Init /\ [][WellFormedNext]_vars

\* ---- longer traces over a pool of two pages ---------------------------------
\* MAX_PAGENO = 2, MaxLongLine instructions at most, each for 1 or 2 pages or
\* for position 0 or 1.
LongInit ==
    \E sa \in 1..MaxLenList, si \in 1..MaxLenList : Construct(2, sa, si)

LongAllocate(seqno, num) ==
    /\ ~failed
    /\ line <= MaxLongLine
    /\ Commit(AllocateEvent(Cur, seqno, num), "A", seqno, num, -1)
    /\ UNCHANGED history

LongAccess(seqno, num) ==
    /\ ~failed
    /\ line <= MaxLongLine
    /\ Commit(AccessEvent(Cur, seqno, num), "X", seqno, num,
              access(allocated_pages, seqno, num))
    /\ UNCHANGED history

LongFree(seqno, num) ==
    /\ ~failed
    /\ line <= MaxLongLine
    /\ Commit(FreeEvent(Cur, seqno, num), "F", seqno, num,
              access(allocated_pages, seqno, num))
    /\ UNCHANGED history

LongNext ==
    \E seqno \in Seqnos, num \in 1..2 :
        /\ line = 1 => seqno = 1
        /\ \/ LongAllocate(seqno, num)
           \/ LongAccess(seqno, num - 1)
           \/ LongFree(seqno, num - 1)

LongSpec == LongInit /\ [][LongNext]_vars

\* ---- vocabulary of the properties ---------------------------------------------
FreeSlots == {p \in DOMAIN pages : pages[p] = -1}

OwnedSlots == {p \in DOMAIN pages : pages[p] # -1}

\* A free block: <<order, position in buddy_lists[order]>>.
Blocks == {b \in (DOMAIN buddy_lists) \X (1..NumPages(pages)) :
              b[2] <= Len(buddy_lists[b[1]])}

BlockRange(b) ==
    buddy_lists[b[1]][b[2]] .. (buddy_lists[b[1]][b[2]] + Pow2(b[1]) - 1)

\* A node: <<list, position>>, list 0 the inactive and 1 the active list.
NodeAt(n) == IF n[1] = 0 THEN inactive_list[n[2]] ELSE active_list[n[2]]

Nodes == ({0} \X (1..Len(inactive_list))) \cup ({1} \X (1..Len(active_list)))

InInactive(page_id) == \E i \in 1..Len(inactive_list) : inactive_list[i][1] = page_id

InActive(page_id) == \E i \in 1..Len(active_list) : active_list[i][1] = page_id

\* The last instruction was processed to its end.
EventDone == last.action # "none" /\ ~failed

\* This step processes an instruction (to its end or to an exception).
EventStep == line' = line + 1 \/ (failed' /\ ~failed)

\* ---- C1 -------------------------------------------------------------------------
\* C1: after every Allocate, Access or Free event the ranges [s, s+2^i) of the
\* start ids s in buddy_lists[i], over all orders i, are pairwise disjoint and
\* their union is exactly the set of slots p with pages[p] = -1.
C1_Partition ==
    last.action # "none" =>
        /\ \A b1, b2 \in Blocks : b1 # b2 => BlockRange(b1) \cap BlockRange(b2) = {}
        /\ UNION {BlockRange(b) : b \in Blocks} = FreeSlots

\* An event has left two free runs that take three blocks, around owned pages.
C1_Witness ==
    /\ EventDone
    /\ Cardinality(Blocks) >= 2
    /\ OwnedSlots # {}
    /\ \E b \in Blocks : b[1] >= 1

\* ---- C2 -------------------------------------------------------------------------
\* C2: after every event of any trace (a seqno may be allocated more than once),
\* every non-sentinel page id in allocated_pages[seqno][num] is the page id of a
\* node in exactly one of the inactive and active lists, and no node
\* (_, seqno, num) is in either list for a position whose entry is -1.
C2_Residency ==
    EventDone =>
        \A s \in DOMAIN allocated_pages : \A k \in 1..Len(allocated_pages[s]) :
            LET p == allocated_pages[s][k]
            IN  /\ p # -1 => (InInactive(p) /\ ~InActive(p)) \/ (InActive(p) /\ ~InInactive(p))
                /\ p = -1 => \A n \in Nodes : ~(NodeAt(n)[2] = s /\ NodeAt(n)[3] = k - 1)

\* ---- C3 -------------------------------------------------------------------------
\* C3: after every event the page ids of the nodes of both lists are pairwise
\* distinct and are exactly the slots p with pages[p] # -1.
C3_NodesAreOwnedSlots ==
    EventDone =>
        /\ \A n1, n2 \in Nodes : n1 # n2 => NodeAt(n1)[1] # NodeAt(n2)[1]
        /\ {NodeAt(n)[1] : n \in Nodes} = OwnedSlots

\* ---- C4 -------------------------------------------------------------------------
\* C4: after every event len(active_list) <= size_active and
\* len(inactive_list) <= size_inactive.
C4_Capacity ==
    last.action # "none" =>
        /\ Len(active_list) <= size_active
        /\ Len(inactive_list) <= size_inactive

\* Both lists are at capacity after an event whose insertions overflowed the
\* inactive list.
C4_Witness ==
    /\ EventDone
    /\ \E i \in 1..Len(last.evicted) : last.evicted[i].from = "overflow"
    /\ Len(active_list) = size_active
    /\ Len(inactive_list) = size_inactive

\* ---- C5 -------------------------------------------------------------------------
ScenarioTrace == <<<<"A", 1, 4>>, <<"A", 2, 4>>, <<"A", 3, 1>>>>

\* C5 as stated: with MAX_PAGENO = 8 and both capacities 2, after A 1 4 and
\* A 2 4 all 8 pages are owned by seqno 1 and 2; A 3 1 then evicts exactly one
\* page, seqno 1's index 0 from the inactive head, before its request is served,
\* and ends with access(1, 0) = -1 and count_free_pages() = 0.
C5_AsStated ==
    /\ history = SubSeq(ScenarioTrace, 1, 2) =>
          \A p \in DOMAIN pages : pages[p] \in {1, 2}
    /\ history = ScenarioTrace =>
          /\ Len(last.evicted) = 1
          /\ last.evicted[1].node[2] = 1 /\ last.evicted[1].node[3] = 0
          /\ last.evicted[1].from = "inactive"
          /\ access(allocated_pages, 1, 0) = -1
          /\ count_free_pages(pages) = 0

\* C5 (amended): each of the first two allocations overflows the inactive list
\* of capacity 2 and is left with its two highest positions only, so after both
\* just pages 6 and 7 (seqno 2's positions 2 and 3) are owned; A 3 1 calls no
\* reclaim_n_pages, is served page 0, and its insertion then evicts exactly one
\* page, seqno 2's position 2 (page 6) from the inactive head; the run ends with
\* access(1, 0) = -1 and count_free_pages() = 6.
C5_Scenario ==
    /\ history = SubSeq(ScenarioTrace, 1, 1) =>
          /\ ~failed
          /\ allocated_pages[1] = <<-1, -1, 2, 3>>
          /\ OwnedSlots = {2, 3}
    /\ history = SubSeq(ScenarioTrace, 1, 2) =>
          /\ ~failed
          /\ allocated_pages[1] = <<-1, -1, -1, -1>>
          /\ allocated_pages[2] = <<-1, -1, 6, 7>>
          /\ OwnedSlots = {6, 7}
          /\ inactive_list = <<<<6, 2, 2>>, <<7, 2, 3>>>>
    /\ history = ScenarioTrace =>
          /\ ~failed
          /\ last.reclaim_n = 0
          /\ last.page_ids = <<0>>
          /\ last.evicted = <<[node |-> <<6, 2, 2>>, from |-> "overflow", page |-> 6]>>
          /\ inactive_list = <<<<7, 2, 3>>, <<0, 3, 0>>>>
          /\ access(allocated_pages, 1, 0) = -1
          /\ count_free_pages(pages) = 6

\* The three instructions of the scenario have been processed.
C5_Witness == history = ScenarioTrace /\ ~failed /\ pages[0] = 3

\* ---- C6 -------------------------------------------------------------------------
\* The Allocate that snap follows has been undone by a Free of each position.
RoundTripDone ==
    /\ ~failed
    /\ snap.kind = "A"
    /\ snap.freed = 0..(snap.num - 1)

\* C6 as stated: from any reachable state, Allocate(seqno, num) followed at once
\* by Free(seqno, k) for every k in 0..num-1 leaves the page array and the free
\* lists as they were before the Allocate.
C6_AsStated ==
    RoundTripDone => pages = snap.pages /\ buddy_lists = snap.buddy_lists

\* C6 (amended): the same, provided the Allocate event evicts no page other
\* than pages it has itself just been given.
C6_RoundTrip ==
    (RoundTripDone /\ ~snap.foreign) =>
        pages = snap.pages /\ buddy_lists = snap.buddy_lists

\* A round trip of two pages or more has been completed and the arena is back.
C6_Witness ==
    /\ RoundTripDone /\ ~snap.foreign
    /\ snap.num >= 2
    /\ last.action = "F"
    /\ pages = snap.pages

\* ---- C7 -------------------------------------------------------------------------
\* C7: from any reachable state in which (seqno, num) is resident, two Access
\* (seqno, num) events in a row leave the page array, the free lists and every
\* allocation record as they were before the first.
C7_ReAccess ==
    (~failed /\ snap.kind = "X" /\ snap.count = 2) =>
        /\ pages = snap.pages
        /\ buddy_lists = snap.buddy_lists
        /\ allocated_pages = snap.allocated_pages

\* The first of the two accesses promoted the page, the second found it in the
\* active list, which is at capacity, while another page waits in the inactive
\* list.
C7_Witness ==
    /\ ~failed /\ snap.kind = "X" /\ snap.count = 2
    /\ InActive(last.lookup)
    /\ Len(active_list) = size_active
    /\ Len(inactive_list) >= 1
    /\ Cardinality(OwnedSlots) >= 2

\* ---- C8 -------------------------------------------------------------------------
\* C8: a Free(seqno, num) whose position is already freed, evicted or was never
\* allocated is a no-op: deallocate returns -1 and the page array, the free
\* lists, the allocation records and both LRU lists are unchanged.
C8_FreeMissIsNoOp ==
    [][(EventStep /\ last'.action = "F" /\ last'.lookup = -1) =>
          /\ ~failed'
          /\ UNCHANGED <<pages, buddy_lists, allocated_pages, inactive_list, active_list>>]_vars

\* ---- C9 -------------------------------------------------------------------------
\* C9: every Access(seqno, num) whose lookup returns -1 (never allocated, freed
\* or evicted) completes without failure, is given exactly one page, a free
\* one, stores it at position num of seqno's record and appends the node
\* (page, seqno, num) to the inactive tail.
C9_PageFault ==
    [][(EventStep /\ last'.action = "X" /\ last'.lookup = -1) =>
          /\ ~failed'
          /\ Len(last'.page_ids) = 1
          /\ last'.page_ids[1] \in last'.free_at_request
          /\ pages'[last'.page_ids[1]] = last'.seqno
          /\ allocated_pages'[last'.seqno][last'.num + 1] = last'.page_ids[1]
          /\ \A k \in 1..Len(allocated_pages[last'.seqno]) :
                k # last'.num + 1 =>
                    allocated_pages'[last'.seqno][k] \in {allocated_pages[last'.seqno][k], -1}
          /\ Len(inactive_list') >= 1
          /\ inactive_list'[Len(inactive_list')] =
                <<last'.page_ids[1], last'.seqno, last'.num>>]_vars

\* ---- C10 ------------------------------------------------------------------------
\* C10: whenever an Allocate(seqno, num) with 1 <= num <= MAX_PAGENO or a
\* page-fault Access calls request_pages, at least the requested number of
\* pages is free, and request_pages returns exactly that many distinct page
\* ids, each free before the call.
C10_NeverUnderFills ==
    (last.action \in {"A", "X"} /\ last.requested > 0
        /\ last.requested <= NumPages(pages)) =>
        /\ Cardinality(last.free_at_request) >= last.requested
        /\ Len(last.page_ids) = last.requested
        /\ \A i, j \in 1..Len(last.page_ids) :
              i # j => last.page_ids[i] # last.page_ids[j]
        /\ \A i \in 1..Len(last.page_ids) : last.page_ids[i] \in last.free_at_request

\* ---- C11 ------------------------------------------------------------------------
\* The nodes reclaim_n_pages had before it: the inactive list, then the active.
ReclaimQueue == last.reclaim_from.inactive \o last.reclaim_from.active

\* C11: whenever an event calls reclaim_n_pages(n) with n > 0, the call returns
\* having evicted exactly n resident pages: it makes n reclaim calls, each frees
\* a page, count_free_pages() has grown by n and the lists hold n nodes less;
\* the victims are the first n nodes of the inactive list followed by the
\* active list, one from the active list only when the inactive one is used up.
C11_ReclaimExactlyN ==
    (last.action \in {"A", "X"} /\ last.reclaim_n > 0) =>
        /\ last.reclaim_to.returned
        /\ {i \in 1..Len(last.evicted) : last.evicted[i].from # "overflow"}
              = 1..last.reclaim_n
        /\ last.reclaim_n <= Len(ReclaimQueue)
        /\ \A i \in 1..last.reclaim_n :
              /\ last.evicted[i].page >= 0
              /\ last.evicted[i].node = ReclaimQueue[i]
              /\ last.evicted[i].from = IF i <= Len(last.reclaim_from.inactive)
                                        THEN "inactive" ELSE "active"
        /\ last.reclaim_to.free = last.reclaim_from.free + last.reclaim_n
        /\ last.reclaim_to.nodes = Len(ReclaimQueue) - last.reclaim_n

\* ---- C12 ------------------------------------------------------------------------
\* C12: after every event, every entry allocated_pages[seqno][num] is either
\* the sentinel -1 or a page id p in 0..MAX_PAGENO-1 with pages[p] = seqno.
C12_RecordInvariant ==
    last.action # "none" =>
        \A s \in DOMAIN allocated_pages : \A k \in 1..Len(allocated_pages[s]) :
            \/ allocated_pages[s][k] = -1
            \/ /\ allocated_pages[s][k] \in DOMAIN pages
               /\ pages[allocated_pages[s][k]] = s

\* After a Free or an eviction a record holds a sentinel next to a page that
\* is still owned, while a second seqno owns a page too.
C12_Witness ==
    /\ EventDone
    /\ \E s \in DOMAIN allocated_pages :
          /\ \E k \in 1..Len(allocated_pages[s]) : allocated_pages[s][k] = -1
          /\ \E k \in 1..Len(allocated_pages[s]) : allocated_pages[s][k] >= 0
          /\ \E t \in DOMAIN allocated_pages \ {s} :
                \E k \in 1..Len(allocated_pages[t]) : allocated_pages[t][k] >= 0

\* ---- C13 ------------------------------------------------------------------------
\* The maximal runs of free slots: <<S, L>> for a run of length L starting at S.
FreeRuns ==
    {r \in (DOMAIN pages) \X (1..NumPages(pages)) :
        /\ r[1] + r[2] <= NumPages(pages)
        /\ \A p \in r[1]..(r[1] + r[2] - 1) : pages[p] = -1
        /\ r[1] = 0 \/ pages[r[1] - 1] # -1
        /\ r[1] + r[2] = NumPages(pages) \/ pages[r[1] + r[2]] # -1}

\* Bit j of L is set.
BitSet(L, j) == (L \div Pow2(j)) % 2 = 1

\* The blocks the placement rule asks for, as <<order, start id>>: for a run
\* <<S, L>> and a set bit j of L, order j at S plus the set bits of L below j
\* (their sum is L mod 2^j).
PlacedBlocks ==
    UNION {{<<j, r[1] + (r[2] % Pow2(j))>> : j \in {i \in 0..r[2] : BitSet(r[2], i)}} :
              r \in FreeRuns}

\* The blocks the free lists hold, as <<order, start id>>.
ListedBlocks == {<<b[1], buddy_lists[b[1]][b[2]]>> : b \in Blocks}

\* C13: after update_buddy_lists (every event ends with the lists rebuilt from
\* the page array), for every maximal run of free slots of length L starting at
\* S the free lists hold exactly one block per set bit j of L, of order j and
\* starting at S plus the sum of 2^k over the set bits k < j of L, and they hold
\* no other block.
C13_Placement ==
    last.action # "none" =>
        /\ ListedBlocks = PlacedBlocks
        /\ Cardinality(Blocks) = Cardinality(PlacedBlocks)

\* A free run of three slots that does not start at slot 0 has been split into
\* a single page followed by a pair.
C13_Witness ==
    /\ EventDone
    /\ \E r \in FreeRuns :
          /\ r[2] = 3 /\ r[1] > 0
          /\ <<0, r[1]>> \in ListedBlocks
          /\ <<1, r[1] + 1>> \in ListedBlocks

\* ---- C14 ------------------------------------------------------------------------
\* request_pages was called by the last event.
Requested == last.action \in {"A", "X"} /\ last.requested > 0

\* The orders >= ceil(log2(num)) whose free list was not empty at the call.
FitAtRequest ==
    {i \in DOMAIN last.request_from.buddy_lists :
        /\ i >= CeilLog2(last.requested)
        /\ Len(last.request_from.buddy_lists[i]) > 0}

ReturnedSlots == {last.page_ids[k] : k \in 1..Len(last.page_ids)}

\* The result is num consecutive ids from the first start id of the lowest
\* fitting order.
ContiguousResult ==
    /\ Len(last.page_ids) = last.requested
    /\ \A k \in 1..Len(last.page_ids) :
          last.page_ids[k] =
              Head(last.request_from.buddy_lists[MinOf(FitAtRequest)]) + k - 1

\* The result is the n lowest-indexed free slots, in increasing order.
LowestFree(n) ==
    /\ Len(last.page_ids) = n
    /\ \A i, j \in 1..Len(last.page_ids) : i < j => last.page_ids[i] < last.page_ids[j]
    /\ ReturnedSlots \subseteq last.free_at_request
    /\ \A p \in last.free_at_request \ ReturnedSlots :
          \A q \in ReturnedSlots : q < p

\* Exactly the returned slots went from free to seqno; no other slot changed.
OnlyReturnedChange ==
    \A p \in DOMAIN last.request_to :
        IF p \in ReturnedSlots
        THEN last.request_from.pages[p] = -1 /\ last.request_to[p] = last.seqno
        ELSE last.request_to[p] = last.request_from.pages[p]

\* C14 as stated: if some free list of order >= ceil(log2(num)) is non-empty,
\* request_pages(seqno, num) returns the num consecutive ids starting at the
\* first start id of the lowest such order; otherwise it returns the num
\* lowest-indexed free slots; in both cases exactly the returned slots change
\* from free to seqno.
C14_AsStated ==
    Requested =>
        /\ IF FitAtRequest # {} THEN ContiguousResult ELSE LowestFree(last.requested)
        /\ OnlyReturnedChange

\* C14 (amended): the same, but when no such list is non-empty and fewer
\* than num slots are free, the result is all the free slots (fewer than num).
C14_Selection ==
    Requested =>
        /\ IF FitAtRequest # {} THEN ContiguousResult
           ELSE IF Cardinality(last.free_at_request) >= last.requested
                THEN LowestFree(last.requested)
                ELSE LowestFree(Cardinality(last.free_at_request))
        /\ OnlyReturnedChange

\* No list fitted and the request was served with free slots that are not
\* consecutive.
C14_Witness ==
    /\ Requested /\ ~failed
    /\ FitAtRequest = {}
    /\ last.requested >= 2
    /\ Len(last.page_ids) = last.requested
    /\ last.page_ids[Len(last.page_ids)] - last.page_ids[1] >= Len(last.page_ids)

\* ---- C15 ------------------------------------------------------------------------
\* This step is an Access that hits: it calls promote(last'.lookup).
PromoteStep == EventStep /\ last'.action = "X" /\ last'.lookup >= 0

\* The lists after the node at position i of the inactive list has moved to
\* the active tail and, if the active list then exceeds size_active, the active
\* head has moved to the inactive tail.
Promoted(i) ==
    LET rest == RemoveAt(inactive_list, i)
        act  == Append(active_list, inactive_list[i])
    IN  IF Len(act) > size_active
        THEN [inactive |-> Append(rest, Head(act)), active |-> Tail(act)]
        ELSE [inactive |-> rest, active |-> act]

\* C15: promote(page_id): if the page's node is in the inactive list it is
\* removed from there and becomes the active tail, and if the active list then
\* exceeds size_active its head node is removed and becomes the inactive tail;
\* if the page's node is already in the active list, both lists are left
\* exactly unchanged.
C15_Promote ==
    [][PromoteStep =>
          /\ InInactive(last'.lookup) =>
                \E i \in 1..Len(inactive_list) :
                    /\ inactive_list[i][1] = last'.lookup
                    /\ inactive_list' = Promoted(i).inactive
                    /\ active_list' = Promoted(i).active
          /\ InActive(last'.lookup) => UNCHANGED <<inactive_list, active_list>>]_vars

\* ---- C16 ------------------------------------------------------------------------
\* This step is a Free of a resident position: deallocate returns its page.
FreeHitStep == EventStep /\ last'.action = "F" /\ last'.lookup >= 0

\* C16: a Free(seqno, num) on a resident position holding page p changes only
\* slot p of the page array (to free) and only entry [seqno][num] of the
\* allocation records (to -1), and removes exactly one LRU node, a node of p:
\* every other node stays in its list in the same order.
C16_FreeFrame ==
    [][FreeHitStep =>
          /\ ~failed'
          /\ pages' = [pages EXCEPT ![last'.lookup] = -1]
          /\ allocated_pages' =
                [allocated_pages EXCEPT ![last'.seqno][last'.num + 1] = -1]
          /\ \/ /\ active_list' = active_list
                /\ \E i \in 1..Len(inactive_list) :
                      /\ inactive_list[i][1] = last'.lookup
                      /\ inactive_list' = RemoveAt(inactive_list, i)
             \/ /\ inactive_list' = inactive_list
                /\ \E i \in 1..Len(active_list) :
                      /\ active_list[i][1] = last'.lookup
                      /\ active_list' = RemoveAt(active_list, i)]_vars

\* ---- C17 ------------------------------------------------------------------------
\* C17: in every state reachable by any trace, every node of the inactive and
\* the active list carries a page id in 0..MAX_PAGENO-1, never -1.
C17_NoSentinelNode ==
    \A n \in Nodes : NodeAt(n)[1] \in DOMAIN pages

\* ---- C18 ------------------------------------------------------------------------
\* C18: an Access that hits a resident page never evicts: the demotion promote
\* performs does not overflow the inactive list, so the event makes no reclaim
\* (hence no deallocate) call, count_free_pages() is unchanged and so is the
\* total number of nodes in the two lists.
C18_HitNeverEvicts ==
    [][PromoteStep =>
          /\ ~failed'
          /\ last'.evicted = <<>>
          /\ count_free_pages(pages') = count_free_pages(pages)
          /\ Len(inactive_list') + Len(active_list') =
                Len(inactive_list) + Len(active_list)]_vars

\* A hit has promoted a page into a full active list and the demoted head has
\* filled the inactive list to its capacity.
C18_Witness ==
    /\ EventDone
    /\ last.action = "X" /\ last.lookup >= 0
    /\ last.demoted >= 1
    /\ Len(active_list) = size_active
    /\ Len(inactive_list) = size_inactive

\* ---- C19 ------------------------------------------------------------------------
\* This step is an Allocate of 1..MAX_PAGENO pages for a seqno that has no
\* allocation record yet.
FirstAllocateStep ==
    /\ EventStep
    /\ last'.action = "A"
    /\ last'.seqno \notin DOMAIN allocated_pages
    /\ last'.num <= NumPages(pages)

\* min(num, size_inactive) for the Allocate of this step.
KeptByAllocate == IF last'.num <= size_inactive THEN last'.num ELSE size_inactive

\* C19: after an Allocate(seqno, num) for a seqno not allocated before, with
\* 1 <= num <= MAX_PAGENO, exactly min(num, size_inactive) positions of seqno
\* are resident, the highest-indexed ones; the positions below them are
\* already evicted (sentinel -1 in the record, their slot free), and every node
\* that was in the inactive list before the event is evicted before any page
\* of the new allocation is.
C19_SelfEviction ==
    [][FirstAllocateStep =>
          /\ ~failed'
          /\ Len(last'.page_ids) = last'.num
          /\ Len(allocated_pages'[last'.seqno]) = last'.num
          /\ \A k \in 1..last'.num :
                IF k > last'.num - KeptByAllocate
                THEN /\ allocated_pages'[last'.seqno][k] = last'.page_ids[k]
                     /\ pages'[last'.page_ids[k]] = last'.seqno
                ELSE /\ allocated_pages'[last'.seqno][k] = -1
                     /\ pages'[last'.page_ids[k]] = -1
          /\ \A j \in 1..Len(last'.evicted) :
                last'.evicted[j].node[2] = last'.seqno =>
                    \A i \in 1..Len(inactive_list) :
                        \E h \in 1..(j - 1) : last'.evicted[h].node = inactive_list[i]]_vars

\* ---- C20 ------------------------------------------------------------------------
\* C20: on well-formed traces (each seqno in one Allocate at most, every
\* Allocate for 1..MAX_PAGENO pages, every Access and Free at a position inside
\* the record of its seqno), after every event the number of owned slots equals
\* len(inactive_list) + len(active_list) and is at most size_active +
\* size_inactive, that is count_free_pages() >= MAX_PAGENO - size_active -
\* size_inactive.
C20_BoundedResidency ==
    last.action # "none" =>
        /\ Cardinality(OwnedSlots) = Len(inactive_list) + Len(active_list)
        /\ Cardinality(OwnedSlots) <= size_active + size_inactive
        /\ count_free_pages(pages) >= NumPages(pages) - size_active - size_inactive

\* Both lists are full and own every owned slot, after an Allocate that asked
\* for more pages than the inactive list holds and left free pages behind.
C20_Witness ==
    /\ EventDone
    /\ last.action = "A"
    /\ last.num > size_inactive
    /\ Len(active_list) = size_active
    /\ Len(inactive_list) = size_inactive
    /\ Cardinality(OwnedSlots) = size_active + size_inactive
    /\ FreeSlots # {}

====
